---- MODULE Spec2Model ----
(***************************************************************************)
(* Card stack of the civic dashboard (CardStack.tsx): a queue of           *)
(* opportunities shown one at a time, a review list of accepted / skipped  *)
(* cards, and a summary view.  An opportunity is an immutable value that   *)
(* is compared by id only, so it is modelled by its id.                    *)
(* The Dashboard that owns the stack generates the opportunities from the  *)
(* user profile, may replace its list by fetched events, and keeps the     *)
(* to-do list that accepted cards are added to.                            *)
(* The Index page leads to the Dashboard through its onboarding: the form  *)
(* of the landing page, the scan that waits for the onboard request, and   *)
(* the questionnaire (VerificationCards) whose answers become the profile. *)
(***************************************************************************)
EXTENDS Integers, Sequences, FiniteSets

\* ---------------------------------------------------------------- bounds
MaxCards == 3      \* longest opportunities list handed to the stack
MaxFinish == 2     \* 'Done Reviewing' is clickable while fewer completions were logged
MaxEvents == 2     \* longest events list a dashboard response carries
MaxOnComplete == 2 \* questionnaire completions (invoked or on a timer) per session
MaxFeedMounts == 2 \* times the mobile feed tab mounts its card stack

Ids == 1..MaxCards
Null == 0          \* stack[0] ?? null

VARIABLES
    opportunities,   \* prop: the list the stack was created with
    stack,           \* useState(opportunities): the queue, front first
    reviewed,        \* useState([]): list of [opportunity, action]
    showSummary,     \* useState(false)
    acceptCalls,     \* onAccept invocations, oldest first (argument of each)
    completeCalls,   \* onComplete invocations, oldest first (argument of each)
    lastOp,          \* the handler invoked last and its argument
    userProfile,     \* Dashboard prop: the answers plus email, linkedin, enrichedProfile
    dashboardOpportunities,  \* Dashboard useState: opportunities (full records)
    isLoading,       \* Dashboard useState(true)
    todoItems,       \* Dashboard useState([])
    fetchState,      \* where the Dashboard and its fetchEvents effect are
    civicEvent,      \* the CivicEvent handed to convertEventToOpportunity
    appState,        \* Index useState("landing")
    apiError,        \* Index useState(null)
    onboardState,    \* the onboard request behind onboardPromiseRef.current
    completeTimeout, \* ScanningOverlay: the 20 s completeTimeout is pending
    innerTimeout,    \* ScanningOverlay: setTimeout(onComplete, 1000) is pending
    scanAwaiting,    \* handleScanComplete is suspended at its await
    currentIndex,    \* VerificationCards useState(0)
    answers,         \* VerificationCards useState({}): question id -> answer
    isExiting,       \* VerificationCards useState(false)
    advanceTimer,    \* the pending 300 ms timer: the index it will set, or NoTimer
    completionTimers,\* the pending 500 ms timers: the newAnswers each one closed over
    verifyCalls,     \* onComplete invocations of the questionnaire (argument of each)
    confirmPending,  \* confirmProfile requests that have not settled
    mobileTab,       \* Dashboard useState("feed")
    mStack,          \* queue of the CardStack in the mobile feed tab
    mReviewed,       \* its review list
    mShowSummary,    \* its summary flag
    feedMounts       \* how often the feed tab has mounted a CardStack

dashVars == <<userProfile, dashboardOpportunities, isLoading, fetchState>>

indexVars == <<appState, apiError, onboardState, completeTimeout, innerTimeout, scanAwaiting>>

verifyVars == <<currentIndex, answers, isExiting, advanceTimer, completionTimers,
                verifyCalls, confirmPending>>

mobileVars == <<mobileTab, mStack, mReviewed, mShowSummary, feedMounts>>

\* what the Dashboard and its card stacks never write
onboardingVars == <<civicEvent, indexVars, verifyVars>>

vars == <<opportunities, stack, reviewed, showSummary, acceptCalls, completeCalls, lastOp,
          userProfile, dashboardOpportunities, isLoading, todoItems, fetchState,
          civicEvent, indexVars, verifyVars, mobileVars>>

\* ---------------------------------------------------------------- helpers
Range(s) == {s[i] : i \in DOMAIN s}

Count(x, s) == Cardinality({i \in DOMAIN s : s[i] = x})

\* lists of pairwise distinct ids of length n
InjSeqs(S, n) == {s \in [1..n -> S] : \A i, j \in 1..n : i # j => s[i] # s[j]}

UniqueIdLists == UNION {InjSeqs(Ids, n) : n \in 0..MaxCards}

ReviewedCard(o, a) == [opportunity |-> o, action |-> a]

Op(name, arg) == [op |-> name, arg |-> arg]

\* const currentCard = stack[0] ?? null
currentCard == IF stack = <<>> THEN Null ELSE Head(stack)

\* reviewed.find(r => r.opportunity.id === id)
HasEntry(r, id) == \E i \in DOMAIN r : r[i].opportunity = id

\* stack.find(o => o.id === id)
InStack(s, id) == \E i \in DOMAIN s : s[i] = id

\* which of the three returns of the render function is taken
View == IF showSummary THEN "summary"
        ELSE IF currentCard = Null THEN "empty"
        ELSE "active"

\* ---------------------------------------------------------------- user profile
Emails == {"", "user@example.com"}

Linkedins == {"", "linkedin.com/in/user"}

EnrichedProfiles == {"none", "some"}

Profiles ==
    [drives : BOOLEAN, owns : BOOLEAN, hasChildren : BOOLEAN, usesTransit : BOOLEAN,
     bikeCommutes : BOOLEAN, isSmallBusinessOwner : BOOLEAN,
     concernedAboutSafety : BOOLEAN, usesParks : BOOLEAN,
     email : Emails, linkedin : Linkedins, enrichedProfile : EnrichedProfiles]

\* the profile before the questionnaire is answered
InitialProfile ==
    [drives |-> FALSE, owns |-> FALSE, hasChildren |-> FALSE, usesTransit |-> FALSE,
     bikeCommutes |-> FALSE, isSmallBusinessOwner |-> FALSE,
     concernedAboutSafety |-> FALSE, usesParks |-> FALSE,
     email |-> "", linkedin |-> "", enrichedProfile |-> "none"]

\* ---------------------------------------------------------------- idle parts
NoError == "null"            \* apiError of useState<string | null>(null)

NoTimer == -1                \* no 300 ms timer is pending

NoAnswers == [q \in {} |-> FALSE]    \* useState<Partial<VerificationAnswers>>({})

NoEvent == [id |-> 0, urgency |-> "", impact_tags |-> <<>>]

\* the Index page is past its onboarding and no request or timer is left
IndexIdle ==
    /\ appState = "dashboard"
    /\ apiError = NoError
    /\ onboardState = "idle"
    /\ completeTimeout = FALSE
    /\ innerTimeout = FALSE
    /\ scanAwaiting = FALSE

\* VerificationCards as created
VerifyIdle ==
    /\ currentIndex = 0
    /\ answers = NoAnswers
    /\ isExiting = FALSE
    /\ advanceTimer = NoTimer
    /\ completionTimers = <<>>
    /\ verifyCalls = <<>>
    /\ confirmPending = 0

\* no mobile feed stack is mounted yet
MobileIdle ==
    /\ mobileTab = "feed"
    /\ mStack = <<>>
    /\ mReviewed = <<>>
    /\ mShowSummary = FALSE
    /\ feedMounts = 0

\* ---------------------------------------------------------------- init
Init ==
    /\ opportunities \in UniqueIdLists
    /\ stack = opportunities
    /\ reviewed = <<>>
    /\ showSummary = FALSE
    /\ acceptCalls = <<>>
    /\ completeCalls = <<>>
    /\ lastOp = Op("init", Null)
    /\ userProfile = InitialProfile
    /\ dashboardOpportunities = <<>>
    /\ isLoading = FALSE
    /\ todoItems = <<>>
    /\ fetchState = "none"
    /\ civicEvent = NoEvent
    /\ IndexIdle
    /\ VerifyIdle
    /\ MobileIdle

\* ---------------------------------------------------------------- handleSkip
\* [...stack.slice(1), currentCard]
SkipStackNoRotation(s) == s

SkipStack(s) == Tail(s) \o <<Head(s)>>

\* track as skipped, only once per card
SkipReviewedAlwaysAppends(r, cur) == Append(r, ReviewedCard(cur, "skipped"))

SkipReviewed(r, cur) ==
    IF ~HasEntry(r, cur) THEN Append(r, ReviewedCard(cur, "skipped")) ELSE r

\* reviewed.length + 1 >= opportunities.length   (reviewed of this render)
SkipShowsSummaryNoPlusOne(r, opps) == Len(r) >= Len(opps)

SkipShowsSummary(r, opps) == Len(r) + 1 >= Len(opps)

handleSkipNoGuard ==
    /\ stack' = (IF stack = <<>> THEN <<>> ELSE Tail(stack)) \o <<currentCard>>
    /\ reviewed' = SkipReviewed(reviewed, currentCard)
    /\ showSummary' = IF SkipShowsSummary(reviewed, opportunities)
                      THEN TRUE ELSE showSummary
    /\ UNCHANGED <<acceptCalls, completeCalls>>

handleSkip ==
    IF currentCard = Null
    THEN UNCHANGED <<stack, reviewed, showSummary, acceptCalls, completeCalls>>
    ELSE /\ stack' = SkipStack(stack)
         /\ reviewed' = SkipReviewed(reviewed, currentCard)
         /\ showSummary' = IF SkipShowsSummary(reviewed, opportunities)
                           THEN TRUE ELSE showSummary
         /\ UNCHANGED <<acceptCalls, completeCalls>>

\* ---------------------------------------------------------------- handleAccept
\* stack.slice(1)
AcceptStackRotates(s) == Tail(s) \o <<Head(s)>>

AcceptStack(s) == Tail(s)

\* reviewed.filter(r => r.opportunity.id !== currentCard.id), then push
AcceptReviewedNoFilter(r, cur) == Append(r, ReviewedCard(cur, "accepted"))

AcceptReviewed(r, cur) ==
    Append(SelectSeq(r, LAMBDA e : e.opportunity # cur), ReviewedCard(cur, "accepted"))

\* newStack.length === 0
AcceptExhaustedOffByOne(newStack) == Len(newStack) <= 1

AcceptExhausted(newStack) == Len(newStack) = 0

handleAcceptNoSummary ==
    IF currentCard = Null
    THEN UNCHANGED <<stack, reviewed, showSummary, acceptCalls, completeCalls>>
    ELSE LET newStack == AcceptStack(stack)
             newReviewed == AcceptReviewed(reviewed, currentCard)
         IN /\ stack' = newStack
            /\ reviewed' = newReviewed
            /\ acceptCalls' = Append(acceptCalls, currentCard)
            /\ UNCHANGED showSummary
            /\ IF AcceptExhausted(newStack)
               THEN completeCalls' = Append(completeCalls, newReviewed)
               ELSE UNCHANGED completeCalls

handleAccept ==
    IF currentCard = Null
    THEN UNCHANGED <<stack, reviewed, showSummary, acceptCalls, completeCalls>>
    ELSE LET newStack == AcceptStack(stack)
             newReviewed == AcceptReviewed(reviewed, currentCard)
         IN /\ stack' = newStack
            /\ reviewed' = newReviewed
            /\ acceptCalls' = Append(acceptCalls, currentCard)
            /\ IF AcceptExhausted(newStack)
               THEN /\ showSummary' = TRUE
                    /\ completeCalls' = Append(completeCalls, newReviewed)
               ELSE UNCHANGED <<showSummary, completeCalls>>

\* ---------------------------------------------------------------- handleReviewCard
\* if (!stack.find(o => o.id === opportunity.id)) setStack([opportunity, ...stack])
ReviewStackNoCheck(s, opportunity) == <<opportunity>> \o s

ReviewStack(s, opportunity) ==
    IF ~InStack(s, opportunity) THEN <<opportunity>> \o s ELSE s

handleReviewCardKeepsSummary(opportunity) ==
    /\ stack' = ReviewStack(stack, opportunity)
    /\ UNCHANGED <<showSummary, reviewed, acceptCalls, completeCalls>>

handleReviewCard(opportunity) ==
    /\ stack' = ReviewStack(stack, opportunity)
    /\ showSummary' = FALSE
    /\ UNCHANGED <<reviewed, acceptCalls, completeCalls>>

\* ---------------------------------------------------------------- handleFinish
handleFinish ==
    /\ completeCalls' = Append(completeCalls, reviewed)
    /\ UNCHANGED <<stack, reviewed, showSummary, acceptCalls>>

\* ---------------------------------------------------------------- to-do list
TodoItem(id, completed) == [id |-> id, completed |-> completed]

\* onAccept of the stack: setTodoItems(prev => [...prev, newTodo])
handleAcceptOpportunity(opportunity) ==
    todoItems' = Append(todoItems, TodoItem(opportunity, FALSE))

\* todoItems.map(item => item.id === id ? {...item, completed: !item.completed} : item)
handleToggleTodoAll(id) ==
    todoItems' = [i \in DOMAIN todoItems |->
                    TodoItem(todoItems[i].id, ~todoItems[i].completed)]

handleToggleTodo(id) ==
    todoItems' = [i \in DOMAIN todoItems |->
                    IF todoItems[i].id = id
                    THEN TodoItem(todoItems[i].id, ~todoItems[i].completed)
                    ELSE todoItems[i]]

\* ---------------------------------------------------------------- user actions
\* Each control exists only in the view that renders it.

\* the X button of the current card (onDismiss)
Skip ==
    /\ View = "active"
    /\ handleSkip
    /\ lastOp' = Op("skip", currentCard)
    /\ UNCHANGED <<opportunities, todoItems, dashVars, onboardingVars, mobileVars>>

\* the accept button of the current card
Accept ==
    /\ View = "active"
    /\ handleAccept
    /\ handleAcceptOpportunity(currentCard)
    /\ lastOp' = Op("accept", currentCard)
    /\ UNCHANGED <<opportunities, dashVars, onboardingVars, mobileVars>>

\* 'View all (n)', rendered when reviewed.length > 0
RequestSummaryAlways ==
    /\ View = "active"
    /\ showSummary' = TRUE
    /\ lastOp' = Op("requestSummary", Null)
    /\ UNCHANGED <<opportunities, stack, reviewed, acceptCalls, completeCalls>>
    /\ UNCHANGED <<todoItems, dashVars, onboardingVars, mobileVars>>

RequestSummary ==
    /\ View = "active"
    /\ Len(reviewed) > 0
    /\ showSummary' = TRUE
    /\ lastOp' = Op("requestSummary", Null)
    /\ UNCHANGED <<opportunities, stack, reviewed, acceptCalls, completeCalls>>
    /\ UNCHANGED <<todoItems, dashVars, onboardingVars, mobileVars>>

\* 'Reconsider', rendered in the summary for every entry tagged skipped
ReconsiderAnyEntry ==
    /\ View = "summary"
    /\ \E i \in DOMAIN reviewed :
          /\ handleReviewCard(reviewed[i].opportunity)
          /\ lastOp' = Op("reconsider", reviewed[i].opportunity)
    /\ UNCHANGED <<opportunities, todoItems, dashVars, onboardingVars, mobileVars>>

Reconsider ==
    /\ View = "summary"
    /\ \E i \in DOMAIN reviewed :
          /\ reviewed[i].action = "skipped"
          /\ handleReviewCard(reviewed[i].opportunity)
          /\ lastOp' = Op("reconsider", reviewed[i].opportunity)
    /\ UNCHANGED <<opportunities, todoItems, dashVars, onboardingVars, mobileVars>>

\* 'Done Reviewing', rendered in the summary
Finish ==
    /\ View = "summary"
    /\ Len(completeCalls) < MaxFinish
    /\ handleFinish
    /\ lastOp' = Op("finish", Null)
    /\ UNCHANGED <<opportunities, todoItems, dashVars, onboardingVars, mobileVars>>

Next == Skip \/ Accept \/ RequestSummary \/ Reconsider \/ Finish

Spec == Init /\ [][Next]_vars

\* ---------------------------------------------------------------- handlers on an empty queue
\* handleSkip and handleAccept invoked while the queue is empty, which the
\* rendered controls do not allow: the handlers themselves are the subject.
SkipOnEmpty ==
    /\ stack = <<>>
    /\ handleSkip
    /\ lastOp' = Op("skip", Null)
    /\ UNCHANGED <<opportunities, todoItems, dashVars, onboardingVars, mobileVars>>

\* onAccept is called after the guard, so the to-do list is not reached
AcceptOnEmpty ==
    /\ stack = <<>>
    /\ handleAccept
    /\ lastOp' = Op("accept", Null)
    /\ UNCHANGED <<opportunities, todoItems, dashVars, onboardingVars, mobileVars>>

NextCalls ==
    \/ Skip \/ Accept \/ RequestSummary \/ Reconsider \/ Finish
    \/ SkipOnEmpty \/ AcceptOnEmpty

SpecCalls == Init /\ [][NextCalls]_vars

\* ---------------------------------------------------------------- generateOpportunities
\* An opportunity record keeps the fields the code branches on. The ids stand
\* for the id strings: 1 "parking-1", 2 "transit-fare", 3 "bike-lane",
\* 4 "rent-1", 5 "prop-tax", 6 "school-1", 7 "biz-license", 8 "safety-1",
\* 9 "parks-1", 10 "transit-plaza", 11 "sponsored-solar", 12 "sponsored-tenants".
\* sponsoredBy is "" where the template has no such field.
Opportunity(id, type, urgency, sponsoredBy) ==
    [id |-> id, type |-> type, urgency |-> urgency, sponsoredBy |-> sponsoredBy]

ParkingTemplate == Opportunity(1, "vote", "urgent", "")

TransitFareTemplate == Opportunity(2, "meeting", "soon", "")

BikeLaneTemplate == Opportunity(3, "action", "upcoming", "")

RentTemplate == Opportunity(4, "meeting", "soon", "")

PropTaxTemplate == Opportunity(5, "vote", "upcoming", "")

SchoolTemplate == Opportunity(6, "meeting", "upcoming", "")

BizLicenseTemplate == Opportunity(7, "action", "soon", "")

SafetyTemplateCopiedId == Opportunity(6, "meeting", "upcoming", "")

SafetyTemplate == Opportunity(8, "meeting", "upcoming", "")

ParksTemplate == Opportunity(9, "action", "upcoming", "")

GeneralTemplate == Opportunity(10, "action", "upcoming", "")

SolarAdTemplate == Opportunity(11, "action", "urgent", "SolarSF Coalition")

TenantsAdTemplate == Opportunity(12, "action", "urgent", "SF Tenants Union")

\* if (cond) opportunities.push(item)
PushIfAlways(list, cond, item) == Append(list, item)

PushIf(list, cond, item) == IF cond THEN Append(list, item) ELSE list

\* the nine conditional pushes, in the order of the code
ConditionalItems(profile) ==
    LET o1 == PushIf(<<>>, profile.drives, ParkingTemplate)
        o2 == PushIf(o1, profile.usesTransit, TransitFareTemplate)
        o3 == PushIf(o2, profile.bikeCommutes, BikeLaneTemplate)
        o4 == PushIf(o3, ~profile.owns, RentTemplate)
        o5 == PushIf(o4, profile.owns, PropTaxTemplate)
        o6 == PushIf(o5, profile.hasChildren, SchoolTemplate)
        o7 == PushIf(o6, profile.isSmallBusinessOwner, BizLicenseTemplate)
        o8 == PushIf(o7, profile.concernedAboutSafety, SafetyTemplate)
        o9 == PushIf(o8, profile.usesParks, ParksTemplate)
    IN o9

\* if (profile.owns) push(solar ad) else push(tenants ad)
SponsoredAdSwapped(profile) ==
    IF profile.owns THEN TenantsAdTemplate ELSE SolarAdTemplate

SponsoredAdForMembers(profile) ==
    IF profile.owns /\ profile.email # "" THEN SolarAdTemplate ELSE TenantsAdTemplate

SponsoredAd(profile) ==
    IF profile.owns THEN SolarAdTemplate ELSE TenantsAdTemplate

\* generateOpportunities of the Dashboard with the fetch effect
generateOpportunitiesAdBeforeGeneral(profile) ==
    Append(Append(ConditionalItems(profile), SponsoredAd(profile)), GeneralTemplate)

generateOpportunities(profile) ==
    Append(Append(ConditionalItems(profile), GeneralTemplate), SponsoredAd(profile))

\* generateOpportunities of Dashboard.tsx: the same pushes without the ads
generateOpportunitiesNoAds(profile) ==
    Append(ConditionalItems(profile), GeneralTemplate)

IdsOf(list) == [i \in DOMAIN list |-> list[i].id]

\* ---------------------------------------------------------------- Dashboard mount
\* mobileTab is "feed" on the first render, so the Dashboard also mounts the
\* CardStack of the mobile feed tab, with the same opportunities prop.
MountFeed(opps) ==
    /\ mobileTab' = "feed"
    /\ mStack' = opps
    /\ mReviewed' = <<>>
    /\ mShowSummary' = FALSE
    /\ feedMounts' = 1

\* First render of the Dashboard and of the CardStack in it, followed by the
\* synchronous part of the fetchEvents effect, which React runs before any
\* further event: without an email it clears isLoading and returns, otherwise
\* the getDashboard request is pending.
Mount ==
    /\ fetchState = "unmounted"
    /\ dashboardOpportunities' = generateOpportunities(userProfile)
    /\ opportunities' = IdsOf(dashboardOpportunities')
    /\ stack' = opportunities'
    /\ reviewed' = <<>>
    /\ showSummary' = FALSE
    /\ todoItems' = <<>>
    /\ IF userProfile.email = ""
       THEN isLoading' = FALSE /\ fetchState' = "noEmail"
       ELSE isLoading' = TRUE /\ fetchState' = "pending"
    /\ MountFeed(opportunities')
    /\ lastOp' = Op("mount", Null)
    /\ UNCHANGED <<userProfile, acceptCalls, completeCalls, onboardingVars>>

\* First render of the Dashboard of Dashboard.tsx, which has no fetch effect
\* and no isLoading state.
MountNoAds ==
    /\ fetchState = "unmounted"
    /\ dashboardOpportunities' = generateOpportunitiesNoAds(userProfile)
    /\ opportunities' = IdsOf(dashboardOpportunities')
    /\ stack' = opportunities'
    /\ reviewed' = <<>>
    /\ showSummary' = FALSE
    /\ todoItems' = <<>>
    /\ fetchState' = "none"
    /\ MountFeed(opportunities')
    /\ lastOp' = Op("mountNoAds", Null)
    /\ UNCHANGED <<userProfile, isLoading, acceptCalls, completeCalls, onboardingVars>>

\* The generator applied to every profile.
InitGen ==
    /\ userProfile \in Profiles
    /\ opportunities = <<>>
    /\ stack = <<>>
    /\ reviewed = <<>>
    /\ showSummary = FALSE
    /\ acceptCalls = <<>>
    /\ completeCalls = <<>>
    /\ lastOp = Op("init", Null)
    /\ dashboardOpportunities = <<>>
    /\ isLoading = FALSE
    /\ todoItems = <<>>
    /\ fetchState = "unmounted"
    /\ civicEvent = NoEvent
    /\ IndexIdle
    /\ VerifyIdle
    /\ MobileIdle

NextGen == Mount \/ MountNoAds

SpecGen == InitGen /\ [][NextGen]_vars

\* ---------------------------------------------------------------- fetched events
\* A CivicEvent keeps the fields convertEventToOpportunity branches on.
CivicEvent(id, urgency, tags) == [id |-> id, urgency |-> urgency, impact_tags |-> tags]

\* t.toLowerCase() on the tags used here
toLowerCase(t) ==
    CASE t = "Vote" -> "vote"
      [] t = "ELECTION" -> "election"
      [] t = "Ballot" -> "ballot"
      [] t = "Meeting" -> "meeting"
      [] t = "Hearing" -> "hearing"
      [] t = "BOARD" -> "board"
      [] t = "Housing" -> "housing"
      [] t = "Voting" -> "voting"
      [] OTHER -> t

\* tags.includes(word)
Includes(tags, word) == \E i \in DOMAIN tags : tags[i] = word

\* urgencyMap[event.urgency] || "upcoming"
urgencyMap(urgency) ==
    CASE urgency = "High" -> "urgent"
      [] urgency = "Medium" -> "soon"
      [] urgency = "Low" -> "upcoming"
      [] OTHER -> "upcoming"

convertEventMeetingFirst(event) ==
    LET tags == [i \in DOMAIN event.impact_tags |-> toLowerCase(event.impact_tags[i])]
        type == IF Includes(tags, "meeting") \/ Includes(tags, "hearing")
                   \/ Includes(tags, "board")
                THEN "meeting"
                ELSE IF Includes(tags, "vote") \/ Includes(tags, "election")
                        \/ Includes(tags, "ballot")
                     THEN "vote"
                     ELSE "action"
    IN Opportunity(event.id, type, urgencyMap(event.urgency), "")

convertEventToOpportunity(event) ==
    LET tags == [i \in DOMAIN event.impact_tags |-> toLowerCase(event.impact_tags[i])]
        type == IF Includes(tags, "vote") \/ Includes(tags, "election")
                   \/ Includes(tags, "ballot")
                THEN "vote"
                ELSE IF Includes(tags, "meeting") \/ Includes(tags, "hearing")
                        \/ Includes(tags, "board")
                     THEN "meeting"
                     ELSE "action"
    IN Opportunity(event.id, type, urgencyMap(event.urgency), "")

\* the events a dashboard response can carry: ids 101, 102, ...
SampleUrgencies == <<"High", "Low", "Medium", "Critical">>

SampleTags == <<<<"Vote", "Housing">>, <<>>, <<"Hearing">>, <<"transit">>>>

SampleEvent(i) ==
    CivicEvent(100 + i, SampleUrgencies[((i - 1) % 4) + 1], SampleTags[((i - 1) % 4) + 1])

SampleEvents == {SampleEvent(i) : i \in 1..MaxEvents}

\* non-empty event lists without repetition
EventLists == UNION {InjSeqs(SampleEvents, n) : n \in 1..MaxEvents}

\* [...response.events.map(convertEventToOpportunity), ...sponsoredAds]
MergeEvents(events, profile) ==
    LET apiOpportunities == [i \in DOMAIN events |-> convertEventToOpportunity(events[i])]
        sponsoredAds == SelectSeq(generateOpportunities(profile),
                                  LAMBDA o : o.sponsoredBy # "")
    IN apiOpportunities \o sponsoredAds

\* ---------------------------------------------------------------- fetchEvents effect
\* getDashboard resolved with at least one event. The CardStack is rendered
\* again with the new opportunities prop; its own state is not touched.
FetchEvents ==
    /\ fetchState = "pending"
    /\ \E events \in EventLists :
          dashboardOpportunities' = MergeEvents(events, userProfile)
    /\ opportunities' = IdsOf(dashboardOpportunities')
    /\ isLoading' = FALSE
    /\ fetchState' = "events"
    /\ lastOp' = Op("fetchEvents", Null)
    /\ UNCHANGED <<userProfile, stack, reviewed, showSummary, acceptCalls,
                   completeCalls, todoItems, onboardingVars, mobileVars>>

\* getDashboard resolved with no events (absent or empty list)
FetchEmpty ==
    /\ fetchState = "pending"
    /\ isLoading' = FALSE
    /\ fetchState' = "empty"
    /\ lastOp' = Op("fetchEmpty", Null)
    /\ UNCHANGED <<userProfile, dashboardOpportunities, opportunities, stack, reviewed,
                   showSummary, acceptCalls, completeCalls, todoItems,
                   onboardingVars, mobileVars>>

\* getDashboard rejected (network error or response not ok): catch, finally
FetchFailedKeepsLoading ==
    /\ fetchState = "pending"
    /\ fetchState' = "failed"
    /\ lastOp' = Op("fetchFailed", Null)
    /\ UNCHANGED <<userProfile, dashboardOpportunities, opportunities, stack, reviewed,
                   showSummary, acceptCalls, completeCalls, todoItems, isLoading,
                   onboardingVars, mobileVars>>

FetchFailed ==
    /\ fetchState = "pending"
    /\ isLoading' = FALSE
    /\ fetchState' = "failed"
    /\ lastOp' = Op("fetchFailed", Null)
    /\ UNCHANGED <<userProfile, dashboardOpportunities, opportunities, stack, reviewed,
                   showSummary, acceptCalls, completeCalls, todoItems,
                   onboardingVars, mobileVars>>

\* the checkbox of a to-do item
ToggleTodo ==
    /\ \E i \in DOMAIN todoItems :
          /\ handleToggleTodo(todoItems[i].id)
          /\ lastOp' = Op("toggleTodo", todoItems[i].id)
    /\ UNCHANGED <<opportunities, stack, reviewed, showSummary, acceptCalls,
                   completeCalls, dashVars, onboardingVars, mobileVars>>

\* The Dashboard of a user whose only answers that vary are owns and email.
DashProfiles ==
    {p \in Profiles :
        /\ ~p.drives /\ ~p.hasChildren /\ ~p.usesTransit /\ ~p.bikeCommutes
        /\ ~p.isSmallBusinessOwner /\ ~p.concernedAboutSafety /\ ~p.usesParks
        /\ p.linkedin = "" /\ p.enrichedProfile = "none"}

InitDash ==
    /\ userProfile \in DashProfiles
    /\ opportunities = <<>>
    /\ stack = <<>>
    /\ reviewed = <<>>
    /\ showSummary = FALSE
    /\ acceptCalls = <<>>
    /\ completeCalls = <<>>
    /\ lastOp = Op("init", Null)
    /\ dashboardOpportunities = <<>>
    /\ isLoading = FALSE
    /\ todoItems = <<>>
    /\ fetchState = "unmounted"
    /\ civicEvent = NoEvent
    /\ IndexIdle
    /\ VerifyIdle
    /\ MobileIdle

NextDash ==
    \/ Mount \/ FetchEvents \/ FetchEmpty \/ FetchFailed \/ ToggleTodo
    \/ Skip \/ Accept \/ RequestSummary \/ Reconsider \/ Finish

SpecDash == InitDash /\ [][NextDash]_vars

\* ---------------------------------------------------------------- conversion alone
\* convertEventToOpportunity applied to one event of a dashboard response.
MaxTags == 2       \* longest impact_tags list of a converted event

ConvTags == {"Vote", "ELECTION", "Ballot", "Meeting", "Hearing", "BOARD",
             "Housing", "transit", "Voting", "vote"}

ConvUrgencies == {"High", "Medium", "Low", "Critical", "high"}

ConvTagLists == UNION {[1..n -> ConvTags] : n \in 0..MaxTags}

ConvEvents ==
    {CivicEvent(id, u, tags) : id \in {101, 102}, u \in ConvUrgencies, tags \in ConvTagLists}

InitConv ==
    /\ civicEvent \in ConvEvents
    /\ opportunities = <<>>
    /\ stack = <<>>
    /\ reviewed = <<>>
    /\ showSummary = FALSE
    /\ acceptCalls = <<>>
    /\ completeCalls = <<>>
    /\ lastOp = Op("init", Null)
    /\ userProfile = InitialProfile
    /\ dashboardOpportunities = <<>>
    /\ isLoading = TRUE
    /\ todoItems = <<>>
    /\ fetchState = "pending"
    /\ IndexIdle
    /\ VerifyIdle
    /\ MobileIdle

\* response.events.map(convertEventToOpportunity), for one event
Convert ==
    /\ fetchState = "pending"
    /\ dashboardOpportunities' = <<convertEventToOpportunity(civicEvent)>>
    /\ fetchState' = "converted"
    /\ lastOp' = Op("convert", civicEvent.id)
    /\ UNCHANGED <<opportunities, stack, reviewed, showSummary, acceptCalls, completeCalls,
                   userProfile, isLoading, todoItems, civicEvent, indexVars, verifyVars,
                   mobileVars>>

NextConv == Convert

SpecConv == InitConv /\ [][NextConv]_vars

\* ---------------------------------------------------------------- Index page
\* The onboarding flow of the Index page: landing, scanning, verification,
\* dashboard. Code that runs after an await is part of the step that settles
\* the awaited promise, because promise reactions run before any other event
\* or timer.

\* setAppState("verification"): the ScanningOverlay is unmounted, its effect
\* cleanup clears the completeTimeout, and VerificationCards is mounted
EnterVerification ==
    /\ appState' = "verification"
    /\ completeTimeout' = FALSE
    /\ scanAwaiting' = FALSE
    /\ currentIndex' = 0
    /\ answers' = NoAnswers
    /\ isExiting' = FALSE
    /\ advanceTimer' = NoTimer

handleAnalyze(email, linkedin) ==
    /\ userProfile' = [userProfile EXCEPT !.email = email, !.linkedin = linkedin]
    /\ appState' = "scanning"
    /\ apiError' = NoError
    /\ onboardState' = "pending"
    /\ completeTimeout' = TRUE

\* the form of the landing page: if (email && linkedin) onAnalyze(email, linkedin)
Analyze ==
    /\ appState = "landing"
    /\ \E email \in Emails, linkedin \in Linkedins :
          /\ email # ""
          /\ linkedin # ""
          /\ handleAnalyze(email, linkedin)
    /\ lastOp' = Op("analyze", Null)
    /\ UNCHANGED <<opportunities, stack, reviewed, showSummary, acceptCalls, completeCalls,
                   dashboardOpportunities, isLoading, todoItems, fetchState, civicEvent,
                   innerTimeout, scanAwaiting, verifyVars, mobileVars>>

\* What follows the settling of the onboard request in the same step: a
\* suspended handleScanComplete resumes; otherwise the Index is rendered with
\* a new handleScanComplete, so the effect of the ScanningOverlay
\* ([onComplete]) is cleaned up and run again, which restarts the 20 s timer.
ResumeScan ==
    IF scanAwaiting
    THEN EnterVerification
    ELSE /\ completeTimeout' = (appState = "scanning")
         /\ UNCHANGED <<appState, scanAwaiting, currentIndex, answers, isExiting,
                        advanceTimer>>

\* onboard resolved: setUserProfile(prev => ({...prev, enrichedProfile}))
OnboardFulfilled ==
    /\ onboardState = "pending"
    /\ onboardState' = "fulfilled"
    /\ userProfile' = [userProfile EXCEPT !.enrichedProfile = "some"]
    /\ ResumeScan
    /\ lastOp' = Op("onboardFulfilled", Null)
    /\ UNCHANGED <<opportunities, stack, reviewed, showSummary, acceptCalls, completeCalls,
                   dashboardOpportunities, isLoading, todoItems, fetchState, civicEvent,
                   apiError, innerTimeout, completionTimers, verifyCalls, confirmPending,
                   mobileVars>>

\* onboard rejected: catch, setApiError(message)
OnboardRejected ==
    /\ onboardState = "pending"
    /\ onboardState' = "rejected"
    /\ apiError' = "Failed to analyze profile"
    /\ ResumeScan
    /\ lastOp' = Op("onboardRejected", Null)
    /\ UNCHANGED <<opportunities, stack, reviewed, showSummary, acceptCalls, completeCalls,
                   dashboardOpportunities, isLoading, todoItems, fetchState, civicEvent,
                   userProfile, innerTimeout, completionTimers, verifyCalls, confirmPending,
                   mobileVars>>

\* ScanningOverlay: the completeTimeout fires after 20 s and starts
\* setTimeout(onComplete, 1000). A restarted completeTimeout cannot fire
\* before a pending 1 s timer does.
CompleteTimeoutFires ==
    /\ appState = "scanning"
    /\ completeTimeout
    /\ ~innerTimeout
    /\ completeTimeout' = FALSE
    /\ innerTimeout' = TRUE
    /\ lastOp' = Op("completeTimeout", Null)
    /\ UNCHANGED <<opportunities, stack, reviewed, showSummary, acceptCalls, completeCalls,
                   dashVars, todoItems, civicEvent, appState, apiError, onboardState,
                   scanAwaiting, verifyVars, mobileVars>>

\* if (onboardPromiseRef.current) await onboardPromiseRef.current;
\* setAppState("verification")
handleScanCompleteNoAwait == EnterVerification

handleScanComplete ==
    IF onboardState = "pending"
    THEN /\ scanAwaiting' = TRUE
         /\ UNCHANGED <<appState, completeTimeout, currentIndex, answers, isExiting,
                        advanceTimer>>
    ELSE EnterVerification

\* the 1 s timer fires: onComplete of the ScanningOverlay
ScanComplete ==
    /\ innerTimeout
    /\ innerTimeout' = FALSE
    /\ handleScanComplete
    /\ lastOp' = Op("scanComplete", Null)
    /\ UNCHANGED <<opportunities, stack, reviewed, showSummary, acceptCalls, completeCalls,
                   dashVars, todoItems, civicEvent, apiError, onboardState,
                   completionTimers, verifyCalls, confirmPending, mobileVars>>

\* ---------------------------------------------------------------- VerificationCards
questions ==
    <<"drives", "usesTransit", "bikeCommutes", "owns", "hasChildren",
      "isSmallBusinessOwner", "concernedAboutSafety", "usesParks">>

\* { ...answers, [currentQuestion.id]: answer }
PutAnswer(a, q, answer) ==
    [x \in (DOMAIN a) \cup {q} |-> IF x = q THEN answer ELSE a[x]]

\* the object literal of onComplete: each field is a.field ?? false
FillAnswers(a) ==
    [q \in Range(questions) |-> IF q \in DOMAIN a THEN a[q] ELSE FALSE]

\* { ...prev, ...updates }
MergeProfile(prev, updates) ==
    [f \in DOMAIN prev |-> IF f \in DOMAIN updates THEN updates[f] ELSE prev[f]]

\* Index.handleVerificationComplete up to its await: the answers are merged
\* into the profile and confirmProfile is called
handleVerificationCompleteNoMerge(a) ==
    /\ UNCHANGED userProfile
    /\ verifyCalls' = Append(verifyCalls, a)
    /\ confirmPending' = confirmPending + 1

handleVerificationComplete(a) ==
    /\ userProfile' = MergeProfile(userProfile, a)
    /\ verifyCalls' = Append(verifyCalls, a)
    /\ confirmPending' = confirmPending + 1

\* an answer button; the card with the buttons is rendered while !isExiting
AnswerClick ==
    /\ appState = "verification"
    /\ ~isExiting
    /\ \E answer \in BOOLEAN :
          LET newAnswers == PutAnswer(answers, questions[currentIndex + 1], answer)
          IN /\ answers' = newAnswers
             /\ IF currentIndex < Len(questions) - 1
                THEN /\ isExiting' = TRUE
                     /\ advanceTimer' = currentIndex + 1
                     /\ UNCHANGED completionTimers
                ELSE /\ Len(verifyCalls) + Len(completionTimers) < MaxOnComplete
                     /\ completionTimers' = Append(completionTimers, newAnswers)
                     /\ UNCHANGED <<isExiting, advanceTimer>>
    /\ lastOp' = Op("answer", currentIndex)
    /\ UNCHANGED <<opportunities, stack, reviewed, showSummary, acceptCalls, completeCalls,
                   dashVars, todoItems, civicEvent, indexVars, currentIndex, verifyCalls,
                   confirmPending, mobileVars>>

\* the 300 ms timer: setCurrentIndex(currentIndex + 1); setIsExiting(false).
\* State updates of an unmounted component are dropped.
AdvanceTimerFires ==
    /\ advanceTimer # NoTimer
    /\ advanceTimer' = NoTimer
    /\ IF appState = "verification"
       THEN currentIndex' = advanceTimer /\ isExiting' = FALSE
       ELSE UNCHANGED <<currentIndex, isExiting>>
    /\ lastOp' = Op("advance", advanceTimer)
    /\ UNCHANGED <<opportunities, stack, reviewed, showSummary, acceptCalls, completeCalls,
                   dashVars, todoItems, civicEvent, indexVars, answers, completionTimers,
                   verifyCalls, confirmPending, mobileVars>>

\* 'Skip remaining questions': onComplete with the answers of this render
SkipRemaining ==
    /\ appState = "verification"
    /\ Len(verifyCalls) + Len(completionTimers) < MaxOnComplete
    /\ handleVerificationComplete(FillAnswers(answers))
    /\ lastOp' = Op("skipRemaining", currentIndex)
    /\ UNCHANGED <<opportunities, stack, reviewed, showSummary, acceptCalls, completeCalls,
                   dashboardOpportunities, isLoading, fetchState, todoItems, civicEvent,
                   indexVars, currentIndex, answers, isExiting, advanceTimer,
                   completionTimers, mobileVars>>

\* a 500 ms timer fires: onComplete with the newAnswers it closed over. The
\* timer is not cleared when the component is unmounted.
CompletionTimerFires ==
    /\ completionTimers # <<>>
    /\ completionTimers' = Tail(completionTimers)
    /\ handleVerificationComplete(FillAnswers(Head(completionTimers)))
    /\ lastOp' = Op("completionTimer", Null)
    /\ UNCHANGED <<opportunities, stack, reviewed, showSummary, acceptCalls, completeCalls,
                   dashboardOpportunities, isLoading, fetchState, todoItems, civicEvent,
                   indexVars, currentIndex, answers, isExiting, advanceTimer, mobileVars>>

\* confirmProfile settled: after try/catch, setAppState("dashboard")
ConfirmSettled(outcome) ==
    /\ confirmPending > 0
    /\ confirmPending' = confirmPending - 1
    /\ appState' = "dashboard"
    /\ lastOp' = Op(outcome, Null)
    /\ UNCHANGED <<opportunities, stack, reviewed, showSummary, acceptCalls, completeCalls,
                   dashVars, todoItems, civicEvent, apiError, onboardState,
                   completeTimeout, innerTimeout, scanAwaiting, currentIndex, answers,
                   isExiting, advanceTimer, completionTimers, verifyCalls, mobileVars>>

ConfirmFulfilled == ConfirmSettled("confirmFulfilled")

ConfirmRejected == ConfirmSettled("confirmRejected")

InitIndex ==
    /\ opportunities = <<>>
    /\ stack = <<>>
    /\ reviewed = <<>>
    /\ showSummary = FALSE
    /\ acceptCalls = <<>>
    /\ completeCalls = <<>>
    /\ lastOp = Op("init", Null)
    /\ userProfile = InitialProfile
    /\ dashboardOpportunities = <<>>
    /\ isLoading = FALSE
    /\ todoItems = <<>>
    /\ fetchState = "unmounted"
    /\ civicEvent = NoEvent
    /\ appState = "landing"
    /\ apiError = NoError
    /\ onboardState = "idle"
    /\ completeTimeout = FALSE
    /\ innerTimeout = FALSE
    /\ scanAwaiting = FALSE
    /\ VerifyIdle
    /\ MobileIdle

NextIndex ==
    \/ Analyze \/ OnboardFulfilled \/ OnboardRejected \/ CompleteTimeoutFires
    \/ ScanComplete \/ AnswerClick \/ AdvanceTimerFires \/ SkipRemaining
    \/ CompletionTimerFires \/ ConfirmFulfilled \/ ConfirmRejected

SpecIndex == InitIndex /\ [][NextIndex]_vars

\* ---------------------------------------------------------------- mobile feed tab
\* The Dashboard renders a second CardStack in the mobile feed tab, with the
\* same opportunities, onAccept and onComplete. It is the same component as
\* the desktop one, acting on its own state.
mobileCurrentCard == IF mStack = <<>> THEN Null ELSE Head(mStack)

MobileView ==
    IF mobileTab # "feed" THEN "unmounted"
    ELSE IF mShowSummary THEN "summary"
    ELSE IF mobileCurrentCard = Null THEN "empty"
    ELSE "active"

MobileSkip ==
    /\ MobileView = "active"
    /\ mStack' = SkipStack(mStack)
    /\ mReviewed' = SkipReviewed(mReviewed, mobileCurrentCard)
    /\ mShowSummary' = IF SkipShowsSummary(mReviewed, opportunities)
                       THEN TRUE ELSE mShowSummary
    /\ lastOp' = Op("mobileSkip", mobileCurrentCard)
    /\ UNCHANGED <<opportunities, stack, reviewed, showSummary, acceptCalls, completeCalls,
                   todoItems, dashVars, onboardingVars, mobileTab, feedMounts>>

MobileAccept ==
    /\ MobileView = "active"
    /\ LET newStack == AcceptStack(mStack)
           newReviewed == AcceptReviewed(mReviewed, mobileCurrentCard)
       IN /\ mStack' = newStack
          /\ mReviewed' = newReviewed
          /\ acceptCalls' = Append(acceptCalls, mobileCurrentCard)
          /\ IF AcceptExhausted(newStack)
             THEN /\ mShowSummary' = TRUE
                  /\ completeCalls' = Append(completeCalls, newReviewed)
             ELSE UNCHANGED <<mShowSummary, completeCalls>>
    /\ handleAcceptOpportunity(mobileCurrentCard)
    /\ lastOp' = Op("mobileAccept", mobileCurrentCard)
    /\ UNCHANGED <<opportunities, stack, reviewed, showSummary, dashVars, onboardingVars,
                   mobileTab, feedMounts>>

MobileRequestSummary ==
    /\ MobileView = "active"
    /\ Len(mReviewed) > 0
    /\ mShowSummary' = TRUE
    /\ lastOp' = Op("mobileRequestSummary", Null)
    /\ UNCHANGED <<opportunities, stack, reviewed, showSummary, acceptCalls, completeCalls,
                   todoItems, dashVars, onboardingVars, mobileTab, mStack, mReviewed,
                   feedMounts>>

MobileReconsider ==
    /\ MobileView = "summary"
    /\ \E i \in DOMAIN mReviewed :
          /\ mReviewed[i].action = "skipped"
          /\ mStack' = ReviewStack(mStack, mReviewed[i].opportunity)
          /\ lastOp' = Op("mobileReconsider", mReviewed[i].opportunity)
    /\ mShowSummary' = FALSE
    /\ UNCHANGED <<opportunities, stack, reviewed, showSummary, acceptCalls, completeCalls,
                   todoItems, dashVars, onboardingVars, mobileTab, mReviewed, feedMounts>>

MobileFinish ==
    /\ MobileView = "summary"
    /\ Len(completeCalls) < MaxFinish
    /\ completeCalls' = Append(completeCalls, mReviewed)
    /\ lastOp' = Op("mobileFinish", Null)
    /\ UNCHANGED <<opportunities, stack, reviewed, showSummary, acceptCalls, todoItems,
                   dashVars, onboardingVars, mobileVars>>

MobileTabs == {"profile", "feed", "actions"}

\* BottomNav: onTabChange(tab) is setMobileTab(tab). Leaving the feed tab
\* unmounts its CardStack and drops its state; entering it mounts a CardStack
\* that starts from the Dashboard's opportunities.
TabChange(tab) ==
    /\ tab # mobileTab
    /\ mobileTab' = tab
    /\ IF tab = "feed"
       THEN /\ feedMounts < MaxFeedMounts
            /\ mStack' = opportunities
            /\ mReviewed' = <<>>
            /\ mShowSummary' = FALSE
            /\ feedMounts' = feedMounts + 1
       ELSE /\ mStack' = <<>>
            /\ mReviewed' = <<>>
            /\ mShowSummary' = FALSE
            /\ UNCHANGED feedMounts
    /\ lastOp' = Op("tabChange", Null)
    /\ UNCHANGED <<opportunities, stack, reviewed, showSummary, acceptCalls, completeCalls,
                   todoItems, dashVars, onboardingVars>>

SwitchTab == \E tab \in MobileTabs : TabChange(tab)

\* The Dashboard of Dashboard.tsx with both of its card stacks.
InitTabs == InitDash

NextTabs ==
    \/ MountNoAds \/ SwitchTab
    \/ Skip \/ Accept \/ RequestSummary \/ Reconsider \/ Finish
    \/ MobileSkip \/ MobileAccept \/ MobileRequestSummary \/ MobileReconsider
    \/ MobileFinish

SpecTabs == InitTabs /\ [][NextTabs]_vars

\* The timers of the ScanningOverlay fire: the event loop runs an expired
\* timer unless the component was unmounted and cleared it.
SpecIndexFair ==
    /\ InitIndex
    /\ [][NextIndex]_vars
    /\ WF_vars(CompleteTimeoutFires)
    /\ WF_vars(ScanComplete)

\* ---------------------------------------------------------------- profile edit
\* the patches the ChatbotModal sends: one of owns, hasChildren, drives
ProfilePatches ==
    {[f \in {field} |-> b] : field \in {"owns", "hasChildren", "drives"}, b \in BOOLEAN}

\* Index.handleUpdateProfile: setUserProfile(prev => ({ ...prev, ...updates }))
handleUpdateProfile(updates) == userProfile' = MergeProfile(userProfile, updates)

\* Dashboard.handleProfileUpdate: onUpdateProfile(updates), nothing else. The
\* Dashboard is rendered again with the new userProfile prop: its useState
\* initialiser is not run again, and the fetchEvents effect depends on
\* userProfile.email only, which no patch changes.
handleProfileUpdateRegenerates(updates) ==
    /\ handleUpdateProfile(updates)
    /\ dashboardOpportunities' = generateOpportunities(userProfile')
    /\ opportunities' = IdsOf(dashboardOpportunities')
    /\ stack' = opportunities'
    /\ reviewed' = <<>>
    /\ showSummary' = FALSE
    /\ UNCHANGED <<isLoading, fetchState, todoItems, acceptCalls, completeCalls, mobileVars>>

handleProfileUpdate(updates) ==
    /\ handleUpdateProfile(updates)
    /\ UNCHANGED <<dashboardOpportunities, opportunities, stack, reviewed, showSummary,
                   isLoading, fetchState, todoItems, acceptCalls, completeCalls,
                   mobileVars>>

\* a profile edit confirmed in the chatbot modal of a mounted Dashboard
UpdateProfile ==
    /\ fetchState # "unmounted"
    /\ \E updates \in ProfilePatches : handleProfileUpdate(updates)
    /\ lastOp' = Op("updateProfile", Null)
    /\ UNCHANGED onboardingVars

NextEdit ==
    \/ Mount \/ MountNoAds \/ FetchEmpty \/ FetchFailed \/ UpdateProfile
    \/ Skip \/ Accept \/ RequestSummary \/ Reconsider \/ Finish

SpecEdit == InitDash /\ [][NextEdit]_vars

\* ================================================================ properties
IsStep(name) == lastOp'.op = name /\ vars' # vars

PosIn(r, id) == CHOOSE i \in DOMAIN r : r[i].opportunity = id

AllSkipped(r) == \A i \in DOMAIN r : r[i].action = "skipped"

DistinctReviewed(r) == Cardinality({r[i].opportunity : i \in DOMAIN r})

\* C1: conservation of cards. Every opportunity the stack was created with
\* is in the queue exactly once, or is absent from the queue and has a review
\* entry tagged accepted; the queue holds nothing else, so no card is lost and
\* no id is queued twice.
C1_Conservation ==
    /\ Range(stack) \subseteq Range(opportunities)
    /\ \A o \in Range(opportunities) :
          \/ Count(o, stack) = 1
          \/ /\ Count(o, stack) = 0
             /\ \E i \in DOMAIN reviewed : reviewed[i] = ReviewedCard(o, "accepted")

\* right after a reconsider: one card was accepted and left the queue, the
\* other two are queued, one of them with a skipped entry
C1_Witness ==
    /\ Len(opportunities) = 3
    /\ lastOp.op = "reconsider"
    /\ Len(stack) = 2
    /\ Len(acceptCalls) = 1
    /\ \E i \in DOMAIN reviewed : reviewed[i].action = "skipped"

\* C2: the review list holds at most one entry per opportunity id; a skip of
\* a card that already has an entry leaves the list unchanged, and an accept
\* of a card with an earlier skipped entry replaces that entry.
C2_ReviewUnique ==
    /\ [](\A i, j \in DOMAIN reviewed :
             reviewed[i].opportunity = reviewed[j].opportunity => i = j)
    /\ [][(IsStep("skip") /\ HasEntry(reviewed, currentCard)) => reviewed' = reviewed]_vars
    /\ [][(IsStep("accept") /\ HasEntry(reviewed, currentCard)) =>
             /\ Len(reviewed') = Len(reviewed)
             /\ Count(ReviewedCard(currentCard, "skipped"), reviewed') = 0
             /\ Count(ReviewedCard(currentCard, "accepted"), reviewed') = 1]_vars

\* a card that was skipped has been accepted after a reconsider, next to
\* another skipped card
C2_Witness ==
    /\ lastOp.op = "accept"
    /\ Len(reviewed) = 2
    /\ reviewed[1].action = "skipped"
    /\ reviewed[2] = ReviewedCard(opportunities[1], "accepted")
    /\ Len(opportunities) = 2

\* C3: skip on a non-empty queue is a FIFO rotation: same length, the old
\* front is the new back, every other card moves up one place keeping its
\* order, and the new front is the card that was second.
C3_SkipRotates ==
    [][IsStep("skip") =>
          /\ Len(stack') = Len(stack)
          /\ stack'[Len(stack)] = stack[1]
          /\ \A i \in 1..(Len(stack) - 1) : stack'[i] = stack[i + 1]]_vars

\* [A,B,C] skipped once is [B,C,A]
C3_Witness ==
    /\ lastOp.op = "skip"
    /\ Len(opportunities) = 3
    /\ stack = <<opportunities[2], opportunities[3], opportunities[1]>>
    /\ reviewed = <<ReviewedCard(opportunities[1], "skipped")>>

\* C4: accept on a non-empty queue removes the front card without rotation
\* (the queue is one shorter and the remaining cards keep their places) and
\* leaves exactly one review entry for that id: tagged accepted, last in the
\* list, any earlier skipped entry for the id gone and the other entries kept
\* in their order. On a fresh stack of N cards the result is a queue of N-1
\* and a review list of the one accepted entry.
C4_AcceptRemoves ==
    [][IsStep("accept") =>
          LET cur == currentCard
              others == {i \in DOMAIN reviewed : reviewed[i].opportunity # cur}
          IN /\ Len(stack') = Len(stack) - 1
             /\ \A i \in DOMAIN stack' : stack'[i] = stack[i + 1]
             /\ Cardinality({i \in DOMAIN reviewed' : reviewed'[i].opportunity = cur}) = 1
             /\ reviewed'[Len(reviewed')] = ReviewedCard(cur, "accepted")
             /\ Len(reviewed') = Cardinality(others) + 1
             /\ \A i \in others : reviewed[i] \in Range(reviewed')
             /\ \A i, j \in others :
                   i < j => PosIn(reviewed', reviewed[i].opportunity)
                             < PosIn(reviewed', reviewed[j].opportunity)
             /\ (reviewed = <<>> /\ stack = opportunities) =>
                   /\ Len(stack') = Len(opportunities) - 1
                   /\ reviewed' = <<ReviewedCard(cur, "accepted")>>]_vars

\* of three cards the first two were skipped and the third accepted; after a
\* reconsider the first was accepted too: its skipped entry is gone and its
\* accepted entry is last
C4_Witness ==
    /\ lastOp.op = "accept"
    /\ Len(opportunities) = 3
    /\ stack = <<opportunities[2]>>
    /\ reviewed = <<ReviewedCard(opportunities[2], "skipped"),
                    ReviewedCard(opportunities[3], "accepted"),
                    ReviewedCard(opportunities[1], "accepted")>>

\* C5: a skip shows the summary exactly when, after it, the number of
\* distinct reviewed ids equals the number of opportunities. As long as
\* nothing was accepted the queue keeps its N cards and the review list is the
\* first cards of the list, each tagged skipped, so that N skips of a fresh
\* stack show the summary on the N-th skip and on none before.
C5_SkipExhaustion ==
    /\ [][IsStep("skip") =>
             (showSummary' <=> DistinctReviewed(reviewed') = Len(opportunities))]_vars
    /\ [](acceptCalls = <<>> =>
             /\ Len(stack) = Len(opportunities)
             /\ Len(reviewed) <= Len(opportunities)
             /\ \A i \in DOMAIN reviewed :
                   reviewed[i] = ReviewedCard(opportunities[i], "skipped"))

\* three skips of a fresh stack of three
C5_Witness ==
    /\ lastOp.op = "skip"
    /\ Len(opportunities) = 3
    /\ stack = opportunities
    /\ Len(reviewed) = 3
    /\ AllSkipped(reviewed)
    /\ showSummary
    /\ acceptCalls = <<>>

\* C6: an accept that empties the queue shows the summary and invokes
\* onComplete once, in that step, with the review list that ends with the
\* entry just accepted; an accept that leaves cards in the queue does neither.
C6_AcceptCompletes ==
    [][IsStep("accept") =>
          IF stack' = <<>>
          THEN /\ showSummary'
               /\ Len(completeCalls') = Len(completeCalls) + 1
               /\ SubSeq(completeCalls', 1, Len(completeCalls)) = completeCalls
               /\ completeCalls'[Len(completeCalls')] = reviewed'
               /\ reviewed'[Len(reviewed')] = ReviewedCard(currentCard, "accepted")
          ELSE /\ ~showSummary'
               /\ completeCalls' = completeCalls]_vars

\* the last of two cards has just been accepted
C6_Witness ==
    /\ lastOp.op = "accept"
    /\ Len(opportunities) = 2
    /\ stack = <<>>
    /\ showSummary
    /\ Len(acceptCalls) = 2
    /\ completeCalls = <<reviewed>>

\* C7: reconsider(id) of an entry tagged skipped makes that opportunity the
\* front of the queue, where it occurs exactly once.
C7_ReconsiderToFront ==
    lastOp.op = "reconsider" =>
        /\ stack # <<>>
        /\ Head(stack) = lastOp.arg
        /\ Count(lastOp.arg, stack) = 1

\* C8: once every card is reviewed and a skipped card X was reconsidered, a
\* skip of a card other than X does not bring the summary back.
C8_ReconsiderReopens ==
    [][(/\ lastOp.op = "reconsider"
        /\ DistinctReviewed(reviewed) = Len(opportunities)
        /\ IsStep("skip")
        /\ currentCard # lastOp.arg) => ~showSummary']_vars

\* C9: reconsider leaves the review list as it is (entries, tags and order),
\* clears the summary flag, and invokes neither onAccept nor onComplete.
C9_ReconsiderFrame ==
    [][IsStep("reconsider") =>
          /\ reviewed' = reviewed
          /\ ~showSummary'
          /\ acceptCalls' = acceptCalls
          /\ completeCalls' = completeCalls]_vars

\* right after reconsider of a card whose entry is still tagged skipped
C9_Witness ==
    /\ lastOp.op = "reconsider"
    /\ ~showSummary
    /\ Len(reviewed) >= 2
    /\ ReviewedCard(lastOp.arg, "skipped") \in Range(reviewed)

\* C10: onComplete fires at most once in a card-stack session.
C10_CompleteOnce == Len(completeCalls) <= 1

\* C12: the summary is shown only with at least one review entry: 'View all'
\* is used only while the review list is non-empty, wherever the queue stands,
\* and a skip or an accept that shows the summary leaves a review entry.
C12_SummaryHasEntries ==
    /\ [](showSummary => Len(reviewed) >= 1)
    /\ [][IsStep("requestSummary") => Len(reviewed) >= 1]_vars
    /\ [][((IsStep("skip") \/ IsStep("accept")) /\ showSummary') => Len(reviewed') >= 1]_vars

\* 'View all' used in the middle of the review, with one entry
C12_Witness ==
    /\ lastOp.op = "requestSummary"
    /\ showSummary
    /\ Len(reviewed) = 1
    /\ Len(stack) = 3

\* ---------------------------------------------------------------- generator
Mounted == fetchState # "unmounted"

\* mounted by the Dashboard whose generator appends the ads
MountedWithAds == fetchState \in {"noEmail", "pending"}

FixedOrder ==
    <<ParkingTemplate, TransitFareTemplate, BikeLaneTemplate, RentTemplate,
      PropTaxTemplate, SchoolTemplate, BizLicenseTemplate, SafetyTemplate,
      ParksTemplate>>

Predicates(profile) ==
    <<profile.drives, profile.usesTransit, profile.bikeCommutes, ~profile.owns,
      profile.owns, profile.hasChildren, profile.isSmallBusinessOwner,
      profile.concernedAboutSafety, profile.usesParks>>

AllFalse(profile) ==
    /\ ~profile.drives /\ ~profile.owns /\ ~profile.hasChildren /\ ~profile.usesTransit
    /\ ~profile.bikeCommutes /\ ~profile.isSmallBusinessOwner
    /\ ~profile.concernedAboutSafety /\ ~profile.usesParks

AllTrue(profile) ==
    /\ profile.drives /\ profile.owns /\ profile.hasChildren /\ profile.usesTransit
    /\ profile.bikeCommutes /\ profile.isSmallBusinessOwner
    /\ profile.concernedAboutSafety /\ profile.usesParks

DrivesOnly(profile) ==
    /\ profile.drives /\ ~profile.owns /\ ~profile.hasChildren /\ ~profile.usesTransit
    /\ ~profile.bikeCommutes /\ ~profile.isSmallBusinessOwner
    /\ ~profile.concernedAboutSafety /\ ~profile.usesParks

\* C13: for every profile the items before the general one are exactly the
\* templates of the fixed order whose predicate holds: one per true
\* predicate, none for a false one, in the fixed order.
C13_ConditionalPart ==
    Mounted =>
        LET g == dashboardOpportunities
            holds == {k \in 1..9 : Predicates(userProfile)[k]}
            n == Cardinality(holds)
            at(i) == CHOOSE k \in 1..9 : FixedOrder[k] = g[i]
        IN /\ Len(g) > n
           /\ g[n + 1] = GeneralTemplate
           /\ \A i \in 1..n : \E k \in holds : FixedOrder[k] = g[i]
           /\ \A k \in holds : \E i \in 1..n : FixedOrder[k] = g[i]
           /\ \A i, j \in 1..n : i < j => at(i) < at(j)

\* a driver who rents and uses parks: parking, rent hearing, parks
C13_Witness ==
    /\ Mounted
    /\ userProfile.drives /\ ~userProfile.owns /\ userProfile.usesParks
    /\ ~userProfile.usesTransit /\ ~userProfile.bikeCommutes /\ ~userProfile.hasChildren
    /\ ~userProfile.isSmallBusinessOwner /\ ~userProfile.concernedAboutSafety
    /\ IdsOf(SubSeq(dashboardOpportunities, 1, 3)) = <<1, 4, 9>>

\* C14: the generated list ends with the general item followed by one
\* sponsored item, the homeowner ad if owns and the renter ad otherwise, and no
\* other element has a sponsor; so the list has at least two elements, and with
\* every boolean false the sponsored item is the renter ad.
C14_GeneralThenSponsored ==
    MountedWithAds =>
        LET g == dashboardOpportunities
            n == Len(g)
        IN /\ n >= 2
           /\ g[n - 1] = GeneralTemplate
           /\ g[n] = (IF userProfile.owns THEN SolarAdTemplate ELSE TenantsAdTemplate)
           /\ g[n].sponsoredBy # ""
           /\ \A i \in 1..(n - 1) : g[i].sponsoredBy = ""
           /\ AllFalse(userProfile) => g[n] = TenantsAdTemplate

\* every boolean false: the list ends with the general item and the renter ad
C14_Witness ==
    /\ MountedWithAds
    /\ AllFalse(userProfile)
    /\ dashboardOpportunities[Len(dashboardOpportunities)] = TenantsAdTemplate
    /\ dashboardOpportunities[Len(dashboardOpportunities) - 1] = GeneralTemplate

\* C15 as stated: for drives = true and every other boolean false the list is
\* [parking, general, renter ad], three items.
C15_DrivesOnlyThree ==
    (MountedWithAds /\ DrivesOnly(userProfile)) =>
        dashboardOpportunities = <<ParkingTemplate, GeneralTemplate, TenantsAdTemplate>>

\* C15 amended: for drives = true and every other boolean false the list is
\* [parking, rent hearing, general, renter ad], four items in that order,
\* because owns = false is the predicate of the rent hearing.
C15_DrivesOnlyFour ==
    (MountedWithAds /\ DrivesOnly(userProfile)) =>
        dashboardOpportunities =
            <<ParkingTemplate, RentTemplate, GeneralTemplate, TenantsAdTemplate>>

C15_Witness ==
    /\ MountedWithAds
    /\ DrivesOnly(userProfile)
    /\ Len(dashboardOpportunities) = 4

\* C16 as stated: with every boolean true the list has 9 + 1 + 1 = 11 items
\* and its sponsored item is the homeowner ad.
C16_AllTrueEleven ==
    (MountedWithAds /\ AllTrue(userProfile)) =>
        /\ Len(dashboardOpportunities) = 11
        /\ dashboardOpportunities[Len(dashboardOpportunities)] = SolarAdTemplate

\* C16 amended: with every boolean true the list has 8 + 1 + 1 = 10 items,
\* every conditional template but the rent hearing (whose predicate is
\* owns = false), and its sponsored item is the homeowner ad.
C16_AllTrueTen ==
    (MountedWithAds /\ AllTrue(userProfile)) =>
        /\ Len(dashboardOpportunities) = 10
        /\ IdsOf(dashboardOpportunities) = <<1, 2, 3, 5, 6, 7, 8, 9, 10, 11>>
        /\ dashboardOpportunities[10] = SolarAdTemplate

C16_Witness ==
    /\ MountedWithAds
    /\ AllTrue(userProfile)
    /\ dashboardOpportunities[Len(dashboardOpportunities)].sponsoredBy = "SolarSF Coalition"

\* C17: the ids generated and their order depend on the eight answers only:
\* a profile that differs from the one used in email, linkedin or
\* enrichedProfile alone generates the same ids in the same order.
C17_OnlyAnswersRead ==
    MountedWithAds =>
        \A e \in Emails, l \in Linkedins, x \in EnrichedProfiles :
            IdsOf(generateOpportunities(
                    [userProfile EXCEPT !.email = e, !.linkedin = l, !.enrichedProfile = x]))
              = IdsOf(dashboardOpportunities)

\* a homeowner with an email, a linkedin url and an enriched profile
C17_Witness ==
    /\ MountedWithAds
    /\ userProfile.owns
    /\ userProfile.email # ""
    /\ userProfile.linkedin # ""
    /\ userProfile.enrichedProfile = "some"
    /\ Len(dashboardOpportunities) >= 3

\* C18: the ids of one generated list are pairwise distinct, so the list the
\* stack is created with has unique ids.
C18_UniqueIds ==
    Mounted =>
        /\ \A i, j \in DOMAIN dashboardOpportunities :
              dashboardOpportunities[i].id = dashboardOpportunities[j].id => i = j
        /\ opportunities = IdsOf(dashboardOpportunities)
        /\ opportunities \in InjSeqs(Range(opportunities), Len(opportunities))

\* the longest list: every answer true
C18_Witness ==
    /\ Mounted
    /\ AllTrue(userProfile)
    /\ Len(stack) >= 9
    /\ stack = IdsOf(dashboardOpportunities)

\* ---------------------------------------------------------------- dashboard
\* C11: to-do items are created by accept only. An accept invokes onAccept
\* once, with the accepted card, and appends one item with the card's id and
\* completed = false; skip, reconsider, 'View all' and 'Done Reviewing' leave
\* the to-do list and the onAccept log alone; a toggle flips the completed
\* flag of the items with the toggled id and of no other, keeping the ids,
\* the length and the order of the list.
C11_TodoOnlyByAccept ==
    /\ [][IsStep("accept") =>
             /\ acceptCalls' = Append(acceptCalls, currentCard)
             /\ Len(todoItems') = Len(todoItems) + 1
             /\ SubSeq(todoItems', 1, Len(todoItems)) = todoItems
             /\ todoItems'[Len(todoItems')].id = currentCard
             /\ todoItems'[Len(todoItems')].completed = FALSE]_vars
    /\ [][(IsStep("skip") \/ IsStep("reconsider") \/ IsStep("requestSummary")
             \/ IsStep("finish")) =>
             /\ todoItems' = todoItems
             /\ acceptCalls' = acceptCalls]_vars
    /\ [][IsStep("toggleTodo") =>
             /\ Len(todoItems') = Len(todoItems)
             /\ \A i \in DOMAIN todoItems :
                   /\ todoItems'[i].id = todoItems[i].id
                   /\ (todoItems'[i].completed # todoItems[i].completed)
                         <=> (todoItems[i].id = lastOp'.arg)]_vars

\* two cards accepted, the first one's to-do item ticked
C11_Witness ==
    /\ lastOp.op = "toggleTodo"
    /\ Len(todoItems) = 2
    /\ Len(acceptCalls) = 2
    /\ todoItems[1].completed
    /\ ~todoItems[2].completed
    /\ lastOp.arg = todoItems[1].id

\* C19: when getDashboard fails or brings no events (or is not called for
\* want of an email) the Dashboard's list is still the generated list and
\* isLoading is false; a failed or empty fetch changes no other state, so
\* nothing tells the user about it; after every outcome isLoading is false,
\* and it stays false.
C19_FetchFallback ==
    /\ [](fetchState \in {"noEmail", "empty", "failed"} =>
             /\ dashboardOpportunities = generateOpportunities(userProfile)
             /\ opportunities = IdsOf(dashboardOpportunities)
             /\ ~isLoading)
    /\ [](fetchState = "events" => ~isLoading)
    /\ [](fetchState = "pending" => isLoading)
    /\ [][(IsStep("fetchFailed") \/ IsStep("fetchEmpty")) =>
             /\ isLoading /\ ~isLoading'
             /\ UNCHANGED <<userProfile, dashboardOpportunities, opportunities, stack,
                            reviewed, showSummary, acceptCalls, completeCalls,
                            todoItems>>]_vars
    /\ [][(Mounted /\ ~isLoading) => ~isLoading']_vars

\* the request failed after the user had accepted a card
C19_Witness ==
    /\ lastOp.op = "fetchFailed"
    /\ fetchState = "failed"
    /\ ~isLoading
    /\ Len(acceptCalls) = 1
    /\ Len(dashboardOpportunities) = 3

\* C20: when getDashboard resolves with events, the queue of the card stack
\* becomes the converted events followed by one sponsored item.
C20_QueueReplaced ==
    [][IsStep("fetchEvents") =>
          LET n == Len(stack')
          IN /\ stack' = IdsOf(dashboardOpportunities')
             /\ n >= 2
             /\ dashboardOpportunities'[n].sponsoredBy # ""
             /\ \A i \in 1..(n - 1) : dashboardOpportunities'[i].sponsoredBy = ""]_vars

\* ---------------------------------------------------------------- conversion
LoweredTags(e) == {toLowerCase(e.impact_tags[i]) : i \in DOMAIN e.impact_tags}

VoteWords == {"vote", "election", "ballot"}

MeetingWords == {"meeting", "hearing", "board"}

\* C21: the converted opportunity has the id of the event; urgency High gives
\* urgent, Medium soon and Low upcoming, three different results for the three
\* levels; the type is vote when the lower-cased tags hold vote, election or
\* ballot, else meeting when they hold meeting, hearing or board, else action,
\* so that an event with tags of both groups is a vote.
C21_Conversion ==
    /\ \A u1, u2 \in {"High", "Medium", "Low"} : urgencyMap(u1) = urgencyMap(u2) => u1 = u2
    /\ fetchState = "converted" =>
          LET o == dashboardOpportunities[1]
              lowered == LoweredTags(civicEvent)
          IN /\ Len(dashboardOpportunities) = 1
             /\ o.id = civicEvent.id
             /\ civicEvent.urgency = "High" => o.urgency = "urgent"
             /\ civicEvent.urgency = "Medium" => o.urgency = "soon"
             /\ civicEvent.urgency = "Low" => o.urgency = "upcoming"
             /\ o.type = (IF lowered \cap VoteWords # {} THEN "vote"
                          ELSE IF lowered \cap MeetingWords # {} THEN "meeting"
                          ELSE "action")
             /\ (lowered \cap VoteWords # {} /\ lowered \cap MeetingWords # {})
                   => o.type = "vote"

\* a Medium event tagged Hearing and Ballot was converted to a vote
C21_Witness ==
    /\ fetchState = "converted"
    /\ civicEvent = CivicEvent(102, "Medium", <<"Hearing", "Ballot">>)
    /\ dashboardOpportunities = <<Opportunity(102, "vote", "soon", "")>>

\* ---------------------------------------------------------------- onboarding
\* C22: in one VerificationCards session onComplete is invoked at most once,
\* whatever the order of answer clicks, 'Skip remaining questions' clicks and
\* timer expiries.
C22_CompleteOnce == Len(verifyCalls) <= 1

\* ---------------------------------------------------------------- card stack, continued
\* the cards without a review entry, in the order of the opportunities list
NotReviewed == SelectSeq(opportunities, LAMBDA o : ~HasEntry(reviewed, o))

SkippedIds == {reviewed[i].opportunity : i \in {j \in DOMAIN reviewed :
                                                   reviewed[j].action = "skipped"}}

C24_AcceptFinal ==
    /\ [][\A i \in DOMAIN reviewed :
             reviewed[i].action = "accepted" => reviewed[i] \in Range(reviewed')]_vars
    /\ [](\A i \in DOMAIN reviewed :
             reviewed[i].action = "accepted" =>
                /\ ~InStack(stack, reviewed[i].opportunity)
                /\ Count(reviewed[i].opportunity, acceptCalls) = 1)
    /\ [][IsStep("reconsider") =>
             ReviewedCard(lastOp'.arg, "accepted") \notin Range(reviewed)]_vars
    /\ [](\A i, j \in DOMAIN acceptCalls : acceptCalls[i] = acceptCalls[j] => i = j)
    /\ [](\A i, j \in DOMAIN todoItems : todoItems[i].id = todoItems[j].id => i = j)

\* a card was accepted, another was skipped and reconsidered, and a further
\* card was accepted after that
C24_Witness ==
    /\ lastOp.op = "accept"
    /\ Len(opportunities) = 3
    /\ reviewed = <<ReviewedCard(opportunities[1], "accepted"),
                    ReviewedCard(opportunities[2], "skipped"),
                    ReviewedCard(opportunities[3], "accepted")>>
    /\ stack = <<opportunities[2]>>
    /\ Len(todoItems) = 2

\* C25: in a stack created with at least one opportunity an empty queue
\* comes with the summary shown; once empty, the queue stays empty and the
\* summary stays shown; so the 'All Caught Up' view is seen only by a stack
\* created with an empty list.
C25_EmptyMeansSummary ==
    /\ []((Len(opportunities) >= 1 /\ stack = <<>>) => showSummary)
    /\ [][(Len(opportunities) >= 1 /\ stack = <<>>) =>
             (stack' = <<>> /\ showSummary')]_vars
    /\ [](View = "empty" => opportunities = <<>>)

\* every card of three was accepted and 'Done Reviewing' was clicked after
\* the queue had emptied
C25_Witness ==
    /\ lastOp.op = "finish"
    /\ Len(opportunities) = 3
    /\ stack = <<>>
    /\ showSummary
    /\ Len(acceptCalls) = 3
    /\ Len(completeCalls) = 2

\* ---------------------------------------------------------------- two card stacks
\* C26: the to-do list of the Dashboard never holds two items with the same
\* id, whatever is done in the desktop stack and in the feed-tab stack and
\* however often the feed tab is left and entered again.
C26_TodoIdsUnique ==
    \A i, j \in DOMAIN todoItems : todoItems[i].id = todoItems[j].id => i = j

OnboardSettled == onboardState \in {"fulfilled", "rejected"}

\* C27: the verification phase is never shown while the onboard request is
\* pending. It is entered only from scanning and only with the request
\* settled; a handleScanComplete that finds the request pending stays in
\* scanning, suspended; and once the scan animation has finished and the
\* request has settled, verification is entered.
C27_VerificationAfterOnboard ==
    /\ [](appState \in {"verification", "dashboard"} => OnboardSettled)
    /\ [][(appState # "verification" /\ appState' = "verification") =>
             (appState = "scanning" /\ onboardState' \in {"fulfilled", "rejected"})]_vars
    /\ [][(IsStep("scanComplete") /\ onboardState = "pending") =>
             (appState' = "scanning" /\ scanAwaiting')]_vars
    /\ [](scanAwaiting => (appState = "scanning" /\ onboardState = "pending"))
    /\ ((appState = "scanning" /\ innerTimeout /\ OnboardSettled)
           ~> (appState = "verification"))
    /\ ((appState = "scanning" /\ OnboardSettled) ~> (appState = "verification"))

\* the scan finished first; the request was rejected while handleScanComplete
\* was suspended, and verification was entered in that step
C27_Witness ==
    /\ lastOp.op = "onboardRejected"
    /\ appState = "verification"
    /\ onboardState = "rejected"
    /\ ~scanAwaiting
    /\ ~completeTimeout

\* the answers of the last onComplete invocation are the answers of the profile
AnswersMerged ==
    /\ verifyCalls # <<>>
    /\ \A q \in Range(questions) : userProfile[q] = verifyCalls[Len(verifyCalls)][q]

\* C28: a failing backend does not stop the onboarding. A rejected onboard
\* call sets apiError and the scan still ends in the verification phase; a
\* rejected confirmProfile call still ends in the dashboard phase, like a
\* resolved one; and when the dashboard phase is entered, the questionnaire
\* answers are in the user profile.
C28_FailuresDoNotBlock ==
    /\ [][IsStep("onboardRejected") =>
             (apiError' # NoError /\ appState' \in {"scanning", "verification"})]_vars
    /\ [](onboardState = "rejected" => apiError # NoError)
    /\ [][(IsStep("scanComplete") /\ onboardState = "rejected") =>
             appState' = "verification"]_vars
    /\ ((onboardState = "rejected" /\ appState = "scanning") ~> (appState = "verification"))
    /\ [][(IsStep("confirmRejected") \/ IsStep("confirmFulfilled")) =>
             appState' = "dashboard"]_vars
    /\ [][(appState # "dashboard" /\ appState' = "dashboard") => AnswersMerged']_vars

\* both calls were rejected; the user had answered all eight questions, the
\* first and the last with yes, and the dashboard is shown with these answers
C28_Witness ==
    /\ lastOp.op = "confirmRejected"
    /\ appState = "dashboard"
    /\ onboardState = "rejected"
    /\ apiError # NoError
    /\ DOMAIN answers = Range(questions)
    /\ userProfile.drives
    /\ userProfile.usesParks
    /\ ~userProfile.owns

C30_EmptyNoOps ==
    [][(stack = <<>> /\ lastOp'.op \in {"skip", "accept"} /\ lastOp' # lastOp) =>
          UNCHANGED <<stack, reviewed, showSummary, acceptCalls, completeCalls,
                      todoItems>>]_vars

\* all three cards were accepted, and then skip was invoked on the empty queue
C30_Witness ==
    /\ lastOp = Op("skip", Null)
    /\ Len(opportunities) = 3
    /\ stack = <<>>
    /\ Len(reviewed) = 3
    /\ Len(acceptCalls) = 3
    /\ Len(completeCalls) = 1
    /\ showSummary

====
